---- MODULE Spec2Model ----
(***************************************************************************)
(* A model of the AC-3 / backtracking CSP solver of src/src/ac3:           *)
(* csp.py (class CSP), backtrack.py (backtrack) and __init__.py (main).    *)
(*                                                                         *)
(* Python objects are modelled with a small heap: a CSP object holds a     *)
(* reference to its domains dict and to its assignments dict, so that      *)
(* copy_of can be told apart from an aliasing copy.  variables and         *)
(* constraints are the objects every CSP of one search shares.             *)
(***************************************************************************)
EXTENDS Integers, Sequences, FiniteSets, TLC

\* ------------------------------------------------------------------ bounds
\* Largest number of variables of a generated instance.
MaxVars == 3
\* Number of values of a generated instance (the values are 1..NVals).
NVals == 2

\* ----------------------------------------------------- program constants
\* The colour literals of main, encoded as integers.
R == 1
C == 2
B == 3

Values == 1..NVals
Colours == {R, C, B}

\* ---------------------------------------------------------------- helpers
Range(s) == {s[x] : x \in DOMAIN s}

\* All orders in which a Python set can be iterated.
Perms(S) ==
    {s \in [1..Cardinality(S) -> S] : \A a, b \in 1..Cardinality(S) : a # b => s[a] # s[b]}

\* The sequence s reversed element by element: <<j, i>> for every <<i, j>>.
Swapped(s) == [x \in DOMAIN s |-> <<s[x][2], s[x][1]>>]

\* ------------------------------------------------------------------ state
VARIABLES
    variables,        \* CSP.variables: the set every CSP of the search shares
    constraints,      \* CSP.constraints: [keys: the dict's keys in insertion
                      \*   order, rel: key -> set of allowed pairs], shared
    declared,         \* the domains the root CSP was constructed with
    forced_order,     \* backtrack's forced_order: [given, list]; None is
                      \*   given = FALSE
    forced_attempts,  \* backtrack's forced_attempts: [given, map]
    domHeap,          \* heap of domains dicts: id -> [variable -> set]
    asgHeap,          \* heap of assignments dicts: id -> [assigned -> value]
    stack,            \* call stack of backtrack: one frame per active call
    child,            \* child_csp of the top frame's current iteration
    to_check,         \* ac_3's deque of arcs
    is_consistent,    \* what add_assignment returned to backtrack
    retval,           \* the value a returning call hands to its caller
    pc,               \* position: "call", "loop", "ac3", "added", "ret",
                      \*   "done", "raised"; "api" while a client that uses
                      \*   the CSP class directly is between two calls
    client            \* history of a direct client: the method running
                      \*   or last run and its arguments (op, args), the
                      \*   one before it and its result (prev_op, prev_ok),
                      \*   the dicts of the state when op was called
                      \*   (domains, assignments), the number of calls
                      \*   made (calls) and what a query returned (result)

vars == <<variables, constraints, declared, forced_order, forced_attempts,
          domHeap, asgHeap, stack, child, to_check, is_consistent, retval, pc,
          client>>

\* What no step of a search changes: the problem and the client history.
problem == <<variables, constraints, declared, forced_order, forced_attempts, client>>
instance == <<variables, constraints, declared, forced_order, forced_attempts>>

\* ------------------------------------------------------- class CSP, queries
\* A CSP object: references to its two mutable dicts.
CSPObject(d, a) == [domains |-> d, assignments |-> a]
NoCSP == CSPObject(-1, -1)

\* CSP.sanity_check: "raise" for the failed assertion of line 35, else the
\* Boolean it returns as "True" or "False".  Line 44 reads domains[i] and
\* domains[j] only after lines 37 and 41 have passed, so it finds them.
sanity_check(vs, domains, cons, assignments) ==
    IF assignments # <<>> THEN "raise"
    ELSE IF (vs \ DOMAIN domains) \cup (DOMAIN domains \ vs) # {} THEN "False"
    ELSE IF \E x \in DOMAIN cons.keys :
               LET i == cons.keys[x][1]
                   j == cons.keys[x][2]
               IN \/ i \notin vs
                  \/ j \notin vs
                  \/ \E p \in cons.rel[cons.keys[x]] :
                        p[1] \notin domains[i] \/ p[2] \notin domains[j]
         THEN "False"
         ELSE "True"

\* CSP.get_neighbours.
get_neighbours(cons, variable) ==
    {k[2] : k \in {x \in Range(cons.keys) : x[1] = variable}}
    \cup {k[1] : k \in {x \in Range(cons.keys) : x[2] = variable}}

\* CSP.get_constraints: the allowed pairs of the directed pair (i, j); the
\* stored key (i, j) wins over the swapped pairs of a stored key (j, i).
HasConstraint(cons, i, j) ==
    <<i, j>> \in Range(cons.keys) \/ <<j, i>> \in Range(cons.keys)

\* Mutant: the pairs of a key stored as (j, i) are returned without being
\* swapped.
get_constraints_unswapped(cons, i, j) ==
    IF <<i, j>> \in Range(cons.keys) THEN cons.rel[<<i, j>>]
    ELSE IF <<j, i>> \in Range(cons.keys) THEN cons.rel[<<j, i>>]
         ELSE {}

get_constraints(cons, i, j) ==
    IF <<i, j>> \in Range(cons.keys) THEN cons.rel[<<i, j>>]
    ELSE IF <<j, i>> \in Range(cons.keys)
         THEN {<<p[2], p[1]>> : p \in cons.rel[<<j, i>>]}
         ELSE {}

\* CSP.get_remaining_value_counts.
get_remaining_value_counts(domains) ==
    [v \in DOMAIN domains |-> Cardinality(domains[v])]

\* CSP.get_degrees.
get_degrees(vs, cons, assignments) ==
    [v \in vs |->
        Cardinality({x \in DOMAIN cons.keys :
            cons.keys[x][2] = v /\ cons.keys[x][1] \notin DOMAIN assignments})
      + Cardinality({x \in DOMAIN cons.keys :
            cons.keys[x][1] = v /\ cons.keys[x][2] \notin DOMAIN assignments})]

\* CSP.get_next_variable: the set of variables candidates.pop() can return.
get_next_variable(vs, domains, cons, assignments) ==
    LET candidates == {v \in vs : v \notin DOMAIN assignments}
        rvcs == get_remaining_value_counts(domains)
        mrv == {v \in candidates : \A w \in candidates : rvcs[v] <= rvcs[w]}
        degrees == get_degrees(vs, cons, assignments)
    IN IF Cardinality(mrv) = 1 THEN mrv
       ELSE {v \in mrv : \A w \in mrv : degrees[v] >= degrees[w]}

\* CSP.get_option_count_per_assignment: one count per stored pair whose
\* side of `variable` is the value and whose other side is still in the
\* domain of the other endpoint (a key (v, v) is counted on its left side).
StoredPairs(cons) ==
    UNION {{<<x, p>> : p \in cons.rel[cons.keys[x]]} : x \in DOMAIN cons.keys}

get_option_count_per_assignment(domains, cons, variable) ==
    [t \in domains[variable] |->
        Cardinality({xp \in StoredPairs(cons) :
            LET v_l == cons.keys[xp[1]][1]
                v_r == cons.keys[xp[1]][2]
                t_l == xp[2][1]
                t_r == xp[2][2]
            IN IF variable = v_l THEN t_l = t /\ t_r \in domains[v_r]
               ELSE variable = v_r /\ t_r = t /\ t_l \in domains[v_l]})]

\* CSP.get_value_order: sorted() is stable over the iteration order of the
\* domain set, so every order with non-increasing counts can come out.
get_value_order(domains, cons, variable) ==
    LET option_counts == get_option_count_per_assignment(domains, cons, variable)
    IN {s \in Perms(domains[variable]) :
            \A a, b \in DOMAIN s : a < b => option_counts[s[a]] >= option_counts[s[b]]}


\* Mutant: no value is ever found unsupported.
remove_inconsistencies_keeps_all(domains, cons, i, j) ==
    [result |-> FALSE, domains |-> domains]

\* Mutant: the new domain is collected from the left values of the allowed
\* pairs instead of from the values of domains[i].
remove_inconsistencies_from_pairs(domains, cons, i, j) ==
    LET constraint_ij == get_constraints(cons, i, j)
        new_i_domain == {p[1] : p \in {q \in constraint_ij : q[2] \in domains[j]}}
    IN [result |-> new_i_domain # domains[i],
        domains |-> [domains EXCEPT ![i] = new_i_domain]]

\* Mutant: support is looked up on the wrong side of the allowed pairs.
remove_inconsistencies_wrong_side(domains, cons, i, j) ==
    LET constraint_ij == get_constraints(cons, i, j)
        new_i_domain == {t_i \in domains[i] :
            \E p \in constraint_ij : p[2] = t_i /\ p[1] \in domains[j]}
    IN [result |-> new_i_domain # domains[i],
        domains |-> [domains EXCEPT ![i] = new_i_domain]]

\* CSP.remove_inconsistencies: the domains after the call, and its result.
remove_inconsistencies(domains, cons, i, j) ==
    LET constraint_ij == get_constraints(cons, i, j)
        new_i_domain == {t_i \in domains[i] :
            \E p \in constraint_ij : p[1] = t_i /\ p[2] \in domains[j]}
    IN [result |-> new_i_domain # domains[i],
        domains |-> [domains EXCEPT ![i] = new_i_domain]]

\* CSP.ac_3, lines 185-189: the deque holds the keys, then the keys swapped.
ac_3_seed(cons) == cons.keys \o Swapped(cons.keys)

\* CSP.ac_3, lines 196-198: the arcs (k, i) appended after domains[i] shrank,
\* in each order the set of neighbours can be iterated.
ac_3_requeue(cons, i, j) ==
    {[x \in DOMAIN s |-> <<s[x], i>>] : s \in Perms(get_neighbours(cons, i) \ {j})}

\* Mutant: the arc is read from the deque and left in it.
ac_3_iteration_peek(domains, cons, q, more) ==
    LET i == Head(q)[1]
        j == Head(q)[2]
        r == remove_inconsistencies_keeps_all(domains, cons, i, j)
    IN [status |-> "run", domains |-> r.domains, to_check |-> q]

\* CSP.ac_3, lines 191-198: one iteration of the while loop on deque q, the
\* appended arcs being `more`.  status is "run" while the loop goes on and
\* "False" when the iteration returns False.
ac_3_iteration(domains, cons, q, more) ==
    LET i == Head(q)[1]
        j == Head(q)[2]
        r == remove_inconsistencies(domains, cons, i, j)
    IN IF r.result
       THEN IF r.domains[i] = {}
            THEN [status |-> "False", domains |-> r.domains, to_check |-> Tail(q)]
            ELSE [status |-> "run", domains |-> r.domains, to_check |-> Tail(q) \o more]
       ELSE [status |-> "run", domains |-> r.domains, to_check |-> Tail(q)]

\* CSP.ac_3, lines 185-200, run from deque q to its return: the set of
\* results [result, domains] it can return, one for each order in which
\* the neighbours can be iterated at line 196.
RECURSIVE ac_3_outcomes(_, _, _)
ac_3_outcomes(domains, cons, q) ==
    IF q = <<>> THEN {[result |-> TRUE, domains |-> domains]}
    ELSE UNION {LET it == ac_3_iteration(domains, cons, q, more)
                IN IF it.status = "False"
                   THEN {[result |-> FALSE, domains |-> it.domains]}
                   ELSE ac_3_outcomes(it.domains, cons, it.to_check) :
                more \in ac_3_requeue(cons, Head(q)[1], Head(q)[2])}

\* The constraints dict with the same items inserted in another order.
Reordered(cons) ==
    {[keys |-> ks, rel |-> cons.rel] : ks \in Perms(Range(cons.keys))}

\* Mutant: the clone is given the domains dict of its source.
copy_of_shared_domains(other, fresh, dH, aH) ==
    [csp |-> CSPObject(other.domains, fresh),
     domHeap |-> dH,
     asgHeap |-> [aH EXCEPT ![fresh] = aH[other.assignments]]]

\* Mutant: the clone is given the assignments dict of its source.
copy_of_shared_assignments(other, fresh, dH, aH) ==
    [csp |-> CSPObject(fresh, other.assignments),
     domHeap |-> [dH EXCEPT ![fresh] = [k \in DOMAIN dH[other.domains] |-> dH[other.domains][k]]],
     asgHeap |-> aH]

\* CSP.copy_of: a CSP with a new domains dict (each set copied) and a new
\* assignments dict, at the fresh heap id; variables and constraints shared.
copy_of(other, fresh, dH, aH) ==
    [csp |-> CSPObject(fresh, fresh),
     domHeap |-> [dH EXCEPT ![fresh] = [k \in DOMAIN dH[other.domains] |-> dH[other.domains][k]]],
     asgHeap |-> [aH EXCEPT ![fresh] = aH[other.assignments]]]

\* CSP.add_assignment, lines 170-172: the three assertions.
add_assignment_asserts(csp, dH, aH, vs, variable, value) ==
    /\ variable \in vs
    /\ variable \notin DOMAIN aH[csp.assignments]
    /\ value \in dH[csp.domains][variable]

\* Mutant: the assertions are made after the assignment is recorded.
add_assignment_asserts_late(csp, dH, aH, vs, cons, variable, value) ==
    [raised |-> ~add_assignment_asserts(csp, dH, aH, vs, variable, value),
     domHeap |-> [dH EXCEPT ![csp.domains] =
                    [v \in DOMAIN @ |-> IF v = variable THEN {value} ELSE @[v]]],
     asgHeap |-> [aH EXCEPT ![csp.assignments] =
                    [v \in DOMAIN @ \cup {variable} |->
                        IF v = variable THEN value ELSE @[v]]],
     to_check |-> <<>>]

\* Mutant: the assignment is recorded and the domain is left as it was.
add_assignment_keeps_domain(csp, dH, aH, vs, cons, variable, value) ==
    IF add_assignment_asserts(csp, dH, aH, vs, variable, value)
    THEN [raised |-> FALSE,
          domHeap |-> dH,
          asgHeap |-> [aH EXCEPT ![csp.assignments] =
                        [v \in DOMAIN @ \cup {variable} |->
                            IF v = variable THEN value ELSE @[v]]],
          to_check |-> ac_3_seed(cons)]
    ELSE [raised |-> TRUE, domHeap |-> dH, asgHeap |-> aH, to_check |-> <<>>]

\* CSP.add_assignment, lines 174-176 up to the first iteration of ac_3:
\* the heaps and the deque after a call whose assertions hold; a failed
\* assertion raises and leaves everything as it was.
add_assignment(csp, dH, aH, vs, cons, variable, value) ==
    IF add_assignment_asserts(csp, dH, aH, vs, variable, value)
    THEN [raised |-> FALSE,
          domHeap |-> [dH EXCEPT ![csp.domains] = [@ EXCEPT ![variable] = {value}]],
          asgHeap |-> [aH EXCEPT ![csp.assignments] =
                        [v \in DOMAIN @ \cup {variable} |->
                            IF v = variable THEN value ELSE @[v]]],
          to_check |-> ac_3_seed(cons)]
    ELSE [raised |-> TRUE, domHeap |-> dH, asgHeap |-> aH, to_check |-> <<>>]

\* --------------------------------------------------------------- backtrack
\* One activation of backtrack: its csp argument and its locals.
Frame(csp, next_var, value_order) ==
    [csp |-> csp, next_var |-> next_var, value_order |-> value_order]

Top == stack[Len(stack)]
Callers == SubSeq(stack, 1, Len(stack) - 1)

\* Python's None and a returned assignments dict.
None == [is_none |-> TRUE, map |-> <<>>]
Solution(map) == [is_none |-> FALSE, map |-> map]

\* backtrack, lines 20-23: the variable backtrack can select at this depth.
\* forced_order[depth] is taken as it is, declared, unassigned or not.
select_variable(vs, domains, cons, assignments, order) ==
    LET depth == Cardinality(DOMAIN assignments)
    IN IF order.given /\ Len(order.list) > depth
       THEN {order.list[depth + 1]}
       ELSE get_next_variable(vs, domains, cons, assignments)

\* Mutant: a forced attempt is the only value tried.
force_attempt_only(value_order, attempts, next_var) ==
    IF attempts.given /\ next_var \in DOMAIN attempts.map
                      /\ attempts.map[next_var] \in Range(value_order)
    THEN <<attempts.map[next_var]>>
    ELSE value_order

\* backtrack, lines 26-30: a forced attempt that is in the order moves to
\* its front; one that is not is ignored.
force_attempt(value_order, attempts, next_var) ==
    IF attempts.given /\ next_var \in DOMAIN attempts.map
                      /\ attempts.map[next_var] \in Range(value_order)
    THEN LET attempt == attempts.map[next_var]
         IN <<attempt>> \o SelectSeq(value_order, LAMBDA t : t # attempt)
    ELSE value_order

\* Mutant: an empty assignments dict is never taken as complete.
is_complete_truthy(assignments, vs) ==
    assignments # <<>> /\ Cardinality(DOMAIN assignments) = Cardinality(vs)

\* backtrack, line 17: every variable is assigned.
is_complete(assignments, vs) ==
    Cardinality(DOMAIN assignments) = Cardinality(vs)

\* backtrack, lines 11-30: entry of a call.  A complete assignment is
\* returned; otherwise the variable and the value order are fixed.
\* get_value_order reads domains[next_var], which raises KeyError for a
\* variable that has no domain; get_next_variable raises ValueError (min of
\* nothing) when no variable is unassigned.
Call ==
    /\ pc = "call"
    /\ LET csp == Top.csp
           domains == domHeap[csp.domains]
           assignments == asgHeap[csp.assignments]
       IN IF is_complete(assignments, variables)
          THEN /\ pc' = "ret"
               /\ retval' = Solution(assignments)
               /\ UNCHANGED stack
          ELSE IF select_variable(variables, domains, constraints,
                                  assignments, forced_order) = {}
          THEN /\ pc' = "raised"
               /\ UNCHANGED <<stack, retval>>
          ELSE \E next_var \in select_variable(variables, domains, constraints,
                                               assignments, forced_order) :
                  IF next_var \notin DOMAIN domains
                  THEN /\ pc' = "raised"
                       /\ UNCHANGED <<stack, retval>>
                  ELSE \E order \in get_value_order(domains, constraints, next_var) :
                          /\ stack' = Callers \o
                               <<Frame(csp, next_var,
                                       force_attempt(order, forced_attempts, next_var))>>
                          /\ pc' = "loop"
                          /\ UNCHANGED retval
    /\ UNCHANGED <<problem, domHeap, asgHeap, child, to_check, is_consistent>>

\* backtrack, lines 32-34 and 45: the for loop takes its next value, clones
\* the state and calls add_assignment on the clone; with no value left the
\* call returns None.
Branch ==
    /\ pc = "loop"
    /\ IF Top.value_order = <<>>
       THEN /\ pc' = "ret"
            /\ retval' = None
            /\ UNCHANGED <<domHeap, asgHeap, child, to_check>>
       ELSE LET t == Head(Top.value_order)
                c == copy_of(Top.csp, Len(stack), domHeap, asgHeap)
                a == add_assignment(c.csp, c.domHeap, c.asgHeap, variables,
                                    constraints, Top.next_var, t)
            IN /\ child' = c.csp
               /\ domHeap' = a.domHeap
               /\ asgHeap' = a.asgHeap
               /\ to_check' = a.to_check
               /\ pc' = IF a.raised THEN "raised" ELSE "ac3"
               /\ UNCHANGED retval
    /\ UNCHANGED <<problem, stack, is_consistent>>

\* CSP.ac_3, lines 191-200, running on child_csp: one iteration of the while
\* loop, or the return of True once the deque is empty.
Ac3Step ==
    /\ pc = "ac3"
    /\ IF to_check = <<>>
       THEN /\ is_consistent' = TRUE
            /\ pc' = "added"
            /\ UNCHANGED <<domHeap, to_check>>
       ELSE \E more \in ac_3_requeue(constraints, Head(to_check)[1], Head(to_check)[2]) :
               LET it == ac_3_iteration(domHeap[child.domains], constraints, to_check, more)
               IN /\ domHeap' = [domHeap EXCEPT ![child.domains] = it.domains]
                  /\ IF it.status = "False"
                     THEN /\ is_consistent' = FALSE
                          /\ pc' = "added"
                          /\ to_check' = <<>>
                     ELSE /\ to_check' = it.to_check
                          /\ UNCHANGED <<is_consistent, pc>>
    /\ UNCHANGED <<problem, asgHeap, stack, child, retval>>

\* The heap once the object csp is garbage.
Free(heap, id) == [heap EXCEPT ![id] = <<>>]

\* Mutant: the child is the argument of the recursive call whatever
\* add_assignment returned.
Decide_recurses_always ==
    /\ pc = "added"
    /\ stack' = stack \o <<Frame(child, 0, <<>>)>>
    /\ pc' = "call"
    /\ child' = NoCSP
    /\ UNCHANGED <<problem, domHeap, asgHeap, to_check, is_consistent, retval>>

\* backtrack, lines 35-41: an inconsistent child is dropped and the loop
\* continues; a consistent one is the argument of the recursive call.
Decide ==
    /\ pc = "added"
    /\ IF is_consistent
       THEN /\ stack' = stack \o <<Frame(child, 0, <<>>)>>
            /\ pc' = "call"
            /\ UNCHANGED <<domHeap, asgHeap>>
       ELSE /\ stack' = Callers \o
                 <<Frame(Top.csp, Top.next_var, Tail(Top.value_order))>>
            /\ domHeap' = Free(domHeap, child.domains)
            /\ asgHeap' = Free(asgHeap, child.assignments)
            /\ pc' = "loop"
    /\ child' = NoCSP
    /\ UNCHANGED <<problem, to_check, is_consistent, retval>>

\* Mutant: the caller goes on with its loop after a solution as it does
\* after None.
Return_keeps_trying ==
    /\ pc = "ret"
    /\ IF Len(stack) = 1
       THEN /\ pc' = "done"
            /\ stack' = <<>>
            /\ UNCHANGED <<domHeap, asgHeap>>
       ELSE /\ domHeap' = Free(domHeap, Top.csp.domains)
            /\ asgHeap' = Free(asgHeap, Top.csp.assignments)
            /\ LET f == stack[Len(stack) - 1]
               IN /\ stack' = SubSeq(stack, 1, Len(stack) - 2) \o
                       <<Frame(f.csp, f.next_var, Tail(f.value_order))>>
                  /\ pc' = "loop"
    /\ UNCHANGED <<problem, child, to_check, is_consistent, retval>>

\* backtrack, lines 41-45: a call returns to its caller.  The caller returns
\* a solution at once and goes on with its loop after None; the root call
\* ends the search.
Return ==
    /\ pc = "ret"
    /\ IF Len(stack) = 1
       THEN /\ pc' = "done"
            /\ stack' = <<>>
            /\ UNCHANGED <<domHeap, asgHeap>>
       ELSE /\ domHeap' = Free(domHeap, Top.csp.domains)
            /\ asgHeap' = Free(asgHeap, Top.csp.assignments)
            /\ IF retval.is_none
               THEN LET f == stack[Len(stack) - 1]
                    IN /\ stack' = SubSeq(stack, 1, Len(stack) - 2) \o
                            <<Frame(f.csp, f.next_var, Tail(f.value_order))>>
                       /\ pc' = "loop"
               ELSE /\ stack' = Callers
                    /\ pc' = "ret"
    /\ UNCHANGED <<problem, child, to_check, is_consistent, retval>>

Next == Call \/ Branch \/ Ac3Step \/ Decide \/ Return

\* ------------------------------------------------------------ the instances
\* Relations between two values of a generated instance.
Neq == {p \in Values \X Values : p[1] # p[2]}
Eq == {p \in Values \X Values : p[1] = p[2]}
Lt == {p \in Values \X Values : p[1] < p[2]}
Rels == {Neq, Eq, Lt}

\* The constraint keys of a generated instance on variables 1..n, in dict
\* order: none, a chain, a chain with its first key stored reversed, a cycle,
\* a chain whose first pair is stored under both keys, and a chain after a
\* key (1, 1).
Chain(n) == [x \in 1..(n - 1) |-> <<x, x + 1>>]
Shapes(n) ==
    {<<>>}
    \cup (IF n >= 1 THEN {<<<<1, 1>>>> \o Chain(n)} ELSE {})
    \cup (IF n >= 2 THEN {Chain(n),
                          <<<<2, 1>>>> \o Tail(Chain(n)),
                          <<<<1, 2>>, <<2, 1>>>> \o Tail(Chain(n))}
                    ELSE {})
    \cup (IF n >= 3 THEN {Chain(n) \o <<<<1, n>>>>} ELSE {})

\* The declared domains: every value for every variable, or variable 1
\* without the value 1.
Domains(n, narrow) ==
    [v \in 1..n |-> IF narrow /\ v = 1 THEN Values \ {1} ELSE Values]

\* A relation cut down to the declared domains of its two variables.
Within(rel, doms, key) ==
    {p \in rel : p[1] \in doms[key[1]] /\ p[2] \in doms[key[2]]}

\* The forced_order / forced_attempts arguments tried on n variables.
Forcings(n) ==
    {<<[given |-> FALSE, list |-> <<>>], [given |-> FALSE, map |-> <<>>]>>,
     <<[given |-> FALSE, list |-> <<>>], [given |-> TRUE, map |-> [v \in {1, n} |-> IF v = 1 THEN 1 ELSE NVals]]>>,
     <<[given |-> TRUE, list |-> <<n>>], [given |-> TRUE, map |-> [v \in {n} |-> NVals]]>>,
     <<[given |-> TRUE, list |-> <<1, 1>>], [given |-> FALSE, map |-> <<>>]>>,
     <<[given |-> TRUE, list |-> <<n + 1>>], [given |-> FALSE, map |-> <<>>]>>}

\* The state a search starts in: the root CSP at heap id 0, no assignment.
NoClient == [op |-> "none", args |-> <<>>, prev_op |-> "none", prev_ok |-> FALSE,
             domains |-> <<>>, assignments |-> <<>>, calls |-> 0, result |-> <<>>]

Start(vs, cons, doms, forcing, at) ==
    /\ variables = vs
    /\ constraints = cons
    /\ declared = doms
    /\ forced_order = forcing[1]
    /\ forced_attempts = forcing[2]
    /\ domHeap = [id \in 0..(Cardinality(vs) + 1) |-> IF id = 0 THEN doms ELSE <<>>]
    /\ asgHeap = [id \in 0..(Cardinality(vs) + 1) |-> <<>>]
    /\ stack = <<Frame(CSPObject(0, 0), 0, <<>>)>>
    /\ child = NoCSP
    /\ to_check = <<>>
    /\ is_consistent = FALSE
    /\ retval = None
    /\ pc = at
    /\ client = NoClient

\* The declared domains with that of variable 1 left empty.
Hollow(doms) == [v \in DOMAIN doms |-> IF v = 1 THEN {} ELSE doms[v]]

Init ==
    \E n \in 0..MaxVars, narrow \in BOOLEAN, hollow \in BOOLEAN :
      \E keys \in Shapes(n), forcing \in Forcings(n) :
        \E rel \in [Range(keys) -> Rels] :
          LET doms == IF hollow THEN Hollow(Domains(n, narrow)) ELSE Domains(n, narrow)
          IN Start(1..n,
                   [keys |-> keys,
                    rel |-> [k \in Range(keys) |-> Within(rel[k], doms, k)]],
                   doms, forcing, "call")

Spec == Init /\ [][Next]_vars

\* Instances as a caller can construct them, sanity_check not being called
\* by backtrack or by main: the generated instances with the relations left
\* whole (an allowed pair may use a value variable 1 does not have), and
\* with a domain for a name that is not a variable.
DomainsOf(n, narrow, extra) ==
    [v \in 1..(IF extra THEN n + 1 ELSE n) |->
        IF narrow /\ v = 1 THEN Values \ {1} ELSE Values]

InitUnchecked ==
    \E n \in 1..MaxVars, narrow \in BOOLEAN, extra \in BOOLEAN :
      \E keys \in Shapes(n) :
        \E rel \in [Range(keys) -> Rels] :
          Start(1..n, [keys |-> keys, rel |-> rel], DomainsOf(n, narrow, extra),
                <<[given |-> FALSE, list |-> <<>>], [given |-> FALSE, map |-> <<>>]>>,
                "call")

SpecUnchecked == InitUnchecked /\ [][Next]_vars

\* main, lines 8-44: the graph-colouring instance and the forced search.
colour_pairs == {p \in Colours \X Colours : p[1] # p[2]}
edges == <<<<1, 2>>, <<1, 3>>, <<1, 4>>, <<2, 4>>, <<2, 6>>, <<3, 4>>, <<3, 7>>,
           <<4, 5>>, <<5, 6>>, <<5, 7>>, <<6, 7>>, <<6, 8>>, <<7, 8>>>>
MainOrder == <<1, 4, 5, 8, 6>>
MainAttempts == [v \in {1, 4, 5, 8, 6} |->
                    CASE v = 1 -> R [] v = 4 -> C [] v = 5 -> R [] v = 8 -> C [] v = 6 -> B]

InitMain ==
    Start(1..8,
          [keys |-> edges, rel |-> [k \in Range(edges) |-> colour_pairs]],
          [v \in 1..8 |-> Colours],
          <<[given |-> TRUE, list |-> MainOrder], [given |-> TRUE, map |-> MainAttempts]>>,
          "call")

SpecMain == InitMain /\ [][Next]_vars

\* The interpreter runs a search on: a step that can be taken is taken.
FairSpec == Spec /\ WF_vars(Next)
FairSpecMain == SpecMain /\ WF_vars(Next)

\* ------------------------------------------------- a client of class CSP
\* The CSP class is a library: a client may clone a state and call
\* add_assignment, ac_3 and remove_inconsistencies on the clone itself, with
\* any arguments.  MaxCalls bounds the number of calls one client makes.
MaxCalls == 2

ClientIdle == pc \in {"api", "added"} /\ child # NoCSP /\ client.calls < MaxCalls

\* The history once the client calls method op.
Called(op, args) ==
    [op |-> op, args |-> args, prev_op |-> client.op, prev_ok |-> is_consistent,
     domains |-> domHeap[child.domains], assignments |-> asgHeap[child.assignments],
     calls |-> client.calls + 1, result |-> <<>>]

\* child = CSP.copy_of(root)
ApiCopy ==
    /\ pc = "api"
    /\ child = NoCSP
    /\ LET c == copy_of(Top.csp, 1, domHeap, asgHeap)
       IN /\ child' = c.csp
          /\ domHeap' = c.domHeap
          /\ asgHeap' = c.asgHeap
    /\ UNCHANGED <<problem, stack, to_check, is_consistent, retval, pc>>

\* child.add_assignment(variable, value), any variable (declared or not) and
\* any value.
ApiAdd ==
    /\ ClientIdle
    /\ \E variable \in variables \cup {Cardinality(variables) + 1}, value \in Values :
          LET a == add_assignment(child, domHeap, asgHeap, variables, constraints,
                                  variable, value)
          IN /\ domHeap' = a.domHeap
             /\ asgHeap' = a.asgHeap
             /\ to_check' = a.to_check
             /\ pc' = IF a.raised THEN "raised" ELSE "ac3"
             /\ client' = Called("add_assignment", <<variable, value>>)
    /\ UNCHANGED <<instance, stack, child, is_consistent, retval>>

\* child.ac_3()
ApiAc3 ==
    /\ ClientIdle
    /\ to_check' = ac_3_seed(constraints)
    /\ pc' = "ac3"
    /\ client' = Called("ac_3", <<>>)
    /\ UNCHANGED <<instance, domHeap, asgHeap, stack, child, is_consistent, retval>>

\* child.remove_inconsistencies(i, j), for a pair of variables that has a
\* constraint (line 211 asserts it).
ApiRemove ==
    /\ ClientIdle
    /\ \E i, j \in variables :
          /\ HasConstraint(constraints, i, j)
          /\ domHeap' = [domHeap EXCEPT ![child.domains] =
                           remove_inconsistencies(@, constraints, i, j).domains]
    /\ pc' = "api"
    /\ client' = Called("remove_inconsistencies", <<>>)
    /\ UNCHANGED <<instance, asgHeap, stack, child, to_check, is_consistent, retval>>

NextApi == ApiCopy \/ ApiAdd \/ ApiAc3 \/ ApiRemove \/ Ac3Step

InitApi ==
    \E n \in 1..MaxVars :
      \E keys \in Shapes(n) :
        \E rel \in [Range(keys) -> Rels] :
          Start(1..n,
                [keys |-> keys, rel |-> rel],
                Domains(n, FALSE),
                <<[given |-> FALSE, list |-> <<>>], [given |-> FALSE, map |-> <<>>]>>,
                "api")

SpecApi == InitApi /\ [][NextApi]_vars

\* variable = child.get_next_variable().  With every variable assigned
\* line 122 takes the min of nothing, which raises ValueError.
ApiNextVariable ==
    /\ ClientIdle
    /\ LET picks == get_next_variable(variables, domHeap[child.domains], constraints,
                                      asgHeap[child.assignments])
       IN IF picks = {}
          THEN /\ pc' = "raised"
               /\ client' = Called("get_next_variable", <<>>)
          ELSE \E v \in picks :
                  /\ pc' = "api"
                  /\ client' = [Called("get_next_variable", <<>>) EXCEPT !.result = <<v>>]
    /\ UNCHANGED <<instance, domHeap, asgHeap, stack, child, to_check, is_consistent, retval>>

\* value_order = child.get_value_order(variable), for any variable.
ApiValueOrder ==
    /\ ClientIdle
    /\ \E variable \in variables :
          \E order \in get_value_order(domHeap[child.domains], constraints, variable) :
              client' = [Called("get_value_order", <<variable>>) EXCEPT !.result = order]
    /\ pc' = "api"
    /\ UNCHANGED <<instance, domHeap, asgHeap, stack, child, to_check, is_consistent, retval>>

\* The instances the two heuristics are called on: the generated ones, and
\* on three variables a key (1, 1) beside a pair stored under both keys and
\* a key (1, 1) beside a key (2, 1).
HeuristicShapes(n) ==
    Shapes(n)
    \cup (IF n >= 3 THEN {<<<<1, 1>>, <<2, 3>>, <<3, 2>>>>,
                          <<<<1, 1>>, <<2, 1>>, <<2, 3>>>>}
                    ELSE {})

InitHeuristic ==
    \E n \in 1..MaxVars :
      \E keys \in HeuristicShapes(n) :
        \E rel \in [Range(keys) -> Rels] :
          Start(1..n,
                [keys |-> keys, rel |-> rel],
                Domains(n, FALSE),
                <<[given |-> FALSE, list |-> <<>>], [given |-> FALSE, map |-> <<>>]>>,
                "api")

NextHeuristic == ApiCopy \/ ApiAdd \/ Ac3Step \/ ApiNextVariable \/ ApiValueOrder

SpecHeuristic == InitHeuristic /\ [][NextHeuristic]_vars

\* ================================================================ claims
\* A total assignment over the declared domains satisfies the instance when
\* the pair of every constraint key is allowed.
Satisfies(a) ==
    \A k \in Range(constraints.keys) : <<a[k[1]], a[k[2]]>> \in constraints.rel[k]

Solutions ==
    {a \in [variables -> UNION Range(declared)] :
        (\A v \in variables : a[v] \in declared[v]) /\ Satisfies(a)}

\* forced_order is a list of distinct declared variables, or None.
WellFormedOrder ==
    forced_order.given =>
        /\ Range(forced_order.list) \subseteq variables
        /\ \A a, b \in DOMAIN forced_order.list :
              a # b => forced_order.list[a] # forced_order.list[b]

\* C1: a solution returned by backtrack (by the root call or by a recursive
\* one) assigns every declared variable a value of its declared domain, and
\* the pair of values of every constraint key is in that key's allowed set.
C1_SolutionSatisfies ==
    (pc \in {"ret", "done"} /\ ~retval.is_none) =>
        /\ DOMAIN retval.map = variables
        /\ \A v \in variables : retval.map[v] \in declared[v]
        /\ \A k \in Range(constraints.keys) :
              <<retval.map[k[1]], retval.map[k[2]]>> \in constraints.rel[k]

\* A solution of an instance with MaxVars variables and at least two keys
\* has been returned by the root call.
C1_Witness ==
    /\ pc = "done"
    /\ ~retval.is_none
    /\ Cardinality(variables) = MaxVars
    /\ Len(constraints.keys) >= 2

\* C2: the root call returns None only if no total assignment over the
\* declared domains satisfies every constraint; a search ends without a
\* result (an exception) only for a forced_order that is no list of
\* distinct declared variables.
C2_Complete ==
    /\ (pc = "done" /\ retval.is_none) => Solutions = {}
    /\ (pc = "raised") => ~WellFormedOrder

\* The root call has returned None on an instance with full declared
\* domains and at least two constraint keys.
C2_Witness ==
    /\ pc = "done"
    /\ retval.is_none
    /\ Len(constraints.keys) >= 2
    /\ \A v \in variables : declared[v] = Values

\* C3: every search ends (the root call returns or an exception leaves
\* it), so every ac_3 loop that is entered is left, and when a search of an
\* instance without a solution ends, under a forced_order of distinct
\* declared variables or none, it is by the root call returning None.
C3_Terminates ==
    /\ <>(pc \in {"done", "raised"})
    /\ []((pc \in {"done", "raised"} /\ Solutions = {} /\ WellFormedOrder) =>
            (pc = "done" /\ retval.is_none))

\* The three-variable cycle whose adjacent variables must differ, with the
\* two colours R and C.
OddCycleTwoColours ==
    /\ variables = 1..3
    /\ Range(constraints.keys) = {<<1, 2>>, <<2, 3>>, <<1, 3>>}
    /\ \A k \in Range(constraints.keys) : constraints.rel[k] = {<<R, C>>, <<C, R>>}
    /\ \A v \in variables : declared[v] = {R, C}

\* The search of the odd cycle with two colours has returned None.
C3_Witness ==
    /\ OddCycleTwoColours
    /\ pc = "done"
    /\ retval.is_none

\* The 13 edges of main are properly coloured by the returned assignment of
\* all 8 nodes.
MainProper ==
    /\ ~retval.is_none
    /\ DOMAIN retval.map = 1..8
    /\ \A v \in 1..8 : retval.map[v] \in Colours
    /\ \A x \in DOMAIN edges : retval.map[edges[x][1]] # retval.map[edges[x][2]]

\* C4: the search of main, with its forced order and forced attempts, ends
\* with the root call returning a proper colouring of the 8 nodes.
C4_MainColouring == <>(pc = "done" /\ MainProper)

\* The search of main has returned a proper colouring that keeps the forced
\* attempts 1 = R and 4 = C and not 5 = R, which was tried and given up.
C4_Witness ==
    /\ variables = 1..8
    /\ pc = "done"
    /\ MainProper
    /\ retval.map[1] = R /\ retval.map[4] = C
    /\ retval.map[5] # R

\* C5: on zero variables the root call returns the empty assignments dict:
\* it never selects a variable, clones the state or raises.
C5_NoVariables ==
    (variables = {}) =>
        /\ pc \in {"call", "ret", "done"}
        /\ pc \in {"ret", "done"} => retval = Solution(<<>>)
        /\ child = NoCSP
        /\ \A x \in DOMAIN stack : stack[x].next_var = 0 /\ stack[x].value_order = <<>>
        /\ \A id \in DOMAIN asgHeap : asgHeap[id] = <<>>

\* The search on zero variables has ended with the empty dict.
C5_Witness ==
    /\ variables = {}
    /\ pc = "done"
    /\ retval = Solution(<<>>)

\* ---- claims about the CSP methods, checked on the calls of a client ----
\* The domains and assignments of the state the client works on.
Cur == domHeap[child.domains]
CurAssignments == asgHeap[child.assignments]

\* The domains the running (or last) ac_3 started from: those at the call
\* of ac_3, or those add_assignment left when it called ac_3.
Ac3Entry ==
    IF client.op = "ac_3" THEN client.domains
    ELSE [client.domains EXCEPT ![client.args[1]] = {client.args[2]}]

\* C6: a second run of ac_3, right after a run of ac_3 that returned True,
\* removes no value.
C6_Idempotent ==
    (pc = "added" /\ client.op = "ac_3" /\ client.prev_op = "ac_3" /\ client.prev_ok) =>
        Cur = client.domains

\* No pair of variables is stored under both keys (i, j) and (j, i), and no
\* key is (i, i).
OneKeyPerPair ==
    \A k \in Range(constraints.keys) : <<k[2], k[1]>> \notin Range(constraints.keys)

\* What is left of C6 on the instances the code handles: with one key per
\* pair of distinct variables a second run after a consistent one removes
\* nothing.
C6_IdempotentOneKey == OneKeyPerPair => C6_Idempotent

\* Value t of variable i has, for every neighbour j, a value of domains[j]
\* allowed with it under the directed constraint of (i, j).
Supported(domains, i, t) ==
    \A j \in get_neighbours(constraints, i) :
        \E t_j \in domains[j] : <<t, t_j>> \in get_constraints(constraints, i, j)

\* The satisfying total assignments that take their values in `domains`.
SolutionsWithin(domains) ==
    {a \in [variables -> Values] :
        (\A v \in variables : a[v] \in domains[v]) /\ Satisfies(a)}

\* C7: when a run of ac_3 has ended (with True or with False), every value
\* the run started with that is supported in the final domains of all
\* neighbours is still in its domain, and so is every value of a satisfying
\* total assignment that lay within the domains the run started with.
C7_Sound ==
    (pc = "added" /\ client.op \in {"ac_3", "add_assignment"}) =>
        /\ \A i \in variables : \A t \in Ac3Entry[i] :
              Supported(Cur, i, t) => t \in Cur[i]
        /\ \A a \in SolutionsWithin(Ac3Entry) : \A v \in variables : a[v] \in Cur[v]

\* A run of ac_3 called by the client has returned True after removing a
\* value, on three variables.
C7_Witness ==
    /\ pc = "added"
    /\ client.op = "ac_3"
    /\ is_consistent
    /\ Cardinality(variables) = MaxVars
    /\ Cur # client.domains
    /\ SolutionsWithin(Ac3Entry) # {}

\* C9: while the client works on the clone, the domains and assignments of
\* the state it was copied from stay what they were (the declared domains
\* and no assignment), the clone has dicts of its own, and the constraints
\* are never modified.
C9_CopyIsolated ==
    /\ [](child # NoCSP =>
            /\ domHeap[Top.csp.domains] = declared
            /\ asgHeap[Top.csp.assignments] = <<>>
            /\ child.domains # Top.csp.domains
            /\ child.assignments # Top.csp.assignments)
    /\ [][constraints' = constraints]_vars

\* The clone has been given an assignment and has lost values by propagation.
C9_Witness ==
    /\ child # NoCSP
    /\ pc = "added"
    /\ CurAssignments # <<>>
    /\ \E v \in variables \ DOMAIN CurAssignments : Cur[v] # declared[v]

\* The precondition of the add_assignment call the client made is violated.
ViolatedPrecondition ==
    \/ client.args[1] \notin variables
    \/ client.args[1] \in DOMAIN client.assignments
    \/ client.args[2] \notin client.domains[client.args[1]]

\* C10: add_assignment called with a violated precondition raises, and the
\* domains, the assignments, the deque and the last result are what they
\* were at the call.
C10_AssertsAbort ==
    (client.op = "add_assignment" /\ ViolatedPrecondition) =>
        /\ pc = "raised"
        /\ Cur = client.domains
        /\ CurAssignments = client.assignments
        /\ to_check = <<>>
        /\ is_consistent = client.prev_ok

\* add_assignment has raised for a variable that was assigned by an earlier
\* call.
C10_Witness ==
    /\ pc = "raised"
    /\ client.op = "add_assignment"
    /\ client.args[1] \in DOMAIN client.assignments

\* add_assignment has raised for an undeclared variable, and for a value
\* that is not in the domain of an unassigned variable.
C10_WitnessUndeclared ==
    pc = "raised" /\ client.op = "add_assignment" /\ client.args[1] \notin variables
C10_WitnessValue ==
    /\ pc = "raised" /\ client.op = "add_assignment" /\ client.args[1] \in variables
    /\ client.args[1] \notin DOMAIN client.assignments
    /\ client.args[2] \notin client.domains[client.args[1]]

\* ---- claims about the domains in a search ----
\* C8: in a search every domain of every state is a subset of the declared
\* domain; a step leaves every domain of a state a subset of what it was,
\* and the domains add_assignment leaves in a new clone are subsets of the
\* domains of the state it was cloned from.
C8_DomainsShrink ==
    /\ [](\A id \in DOMAIN domHeap : \A v \in DOMAIN domHeap[id] :
            domHeap[id][v] \subseteq declared[v])
    /\ [][/\ \A id \in DOMAIN domHeap :
               \A v \in DOMAIN domHeap[id] \cap DOMAIN domHeap'[id] :
                  domHeap'[id][v] \subseteq domHeap[id][v]
          /\ (child = NoCSP /\ child' # NoCSP) =>
               \A v \in variables :
                  domHeap'[child'.domains][v] \subseteq domHeap[Top.csp.domains][v]]_vars

\* ac_3 has removed a value from the domain of an unassigned variable of the
\* clone.
C8_Witness ==
    /\ pc = "ac3"
    /\ \E v \in variables \ DOMAIN asgHeap[child.assignments] :
          /\ domHeap[child.domains][v] # domHeap[Top.csp.domains][v]
          /\ domHeap[child.domains][v] \subseteq domHeap[Top.csp.domains][v]

\* ---- claims about validation ----
\* The construction invariant of an instance: the domains are those of the
\* variables, every constraint key names two variables and every allowed
\* pair takes its values in the declared domains of the key's variables.
ConstructionInvariant ==
    /\ DOMAIN declared = variables
    /\ \A k \in Range(constraints.keys) :
          /\ k[1] \in variables /\ k[2] \in variables
          /\ \A p \in constraints.rel[k] :
                p[1] \in declared[k[1]] /\ p[2] \in declared[k[2]]

\* No call of the search has selected a variable, cloned a state or
\* recorded an assignment.
NothingSelected ==
    /\ child = NoCSP
    /\ \A x \in DOMAIN stack : stack[x].next_var = 0 /\ stack[x].value_order = <<>>
    /\ \A id \in DOMAIN asgHeap : asgHeap[id] = <<>>

\* C11: sanity_check returns False on an instance that violates the
\* construction invariant and True on every other, and the search of an
\* instance that violates it selects no variable and makes no assignment.
C11_Rejected ==
    /\ sanity_check(variables, declared, constraints, <<>>) =
          (IF ConstructionInvariant THEN "True" ELSE "False")
    /\ ~ConstructionInvariant => NothingSelected

\* What the code does keep of C11: sanity_check tells the instances apart.
C11_Detected ==
    sanity_check(variables, declared, constraints, <<>>) =
        (IF ConstructionInvariant THEN "True" ELSE "False")

\* ---- claims about the result of ac_3 ----
\* Every value of domains[i] has a value of domains[j] allowed with it
\* under get_constraints(i, j).
ArcConsistent(domains, i, j) ==
    \A t_i \in domains[i] :
        \E t_j \in domains[j] : <<t_i, t_j>> \in get_constraints(constraints, i, j)

\* C12: when a run of ac_3 (called by the client or by add_assignment) has
\* returned True, both directed arcs of every constraint key are arc
\* consistent in the resulting domains, on every instance.
C12_ArcConsistent ==
    (pc = "added" /\ client.op \in {"ac_3", "add_assignment"} /\ is_consistent) =>
        \A k \in Range(constraints.keys) :
            ArcConsistent(Cur, k[1], k[2]) /\ ArcConsistent(Cur, k[2], k[1])

\* What is left of C12 on the instances the code handles: one key per pair
\* of distinct variables.
C12_ArcConsistentOneKey == OneKeyPerPair => C12_ArcConsistent

\* C13: the result of a run of ac_3 is the result of every run from the
\* same state, whatever the order in which the arcs are seeded (the order
\* of the constraints dict) and re-enqueued (the order of the neighbour
\* set): the same True or False and, for True, the same final domains.
C13_OrderIndependent ==
    (pc = "added" /\ client.op \in {"ac_3", "add_assignment"}) =>
        \A cons \in Reordered(constraints) :
            \A o \in ac_3_outcomes(Ac3Entry, cons, ac_3_seed(cons)) :
                /\ o.result = is_consistent
                /\ is_consistent => o.domains = Cur

\* What is left of C13 on the instances the code handles: one key per pair
\* of distinct variables.
C13_OrderIndependentOneKey == OneKeyPerPair => C13_OrderIndependent

\* ---- claims about the states of a search ----
\* The assigned variables of the CSP object are variables, and the domain
\* of each is the singleton of its assigned value.
Collapsed(csp) ==
    /\ DOMAIN asgHeap[csp.assignments] \subseteq variables
    /\ \A v \in DOMAIN asgHeap[csp.assignments] :
          domHeap[csp.domains][v] = {asgHeap[csp.assignments][v]}

\* C14 as claimed: the state add_assignment has returned from, with True or
\* with False, and every state the search recursed into have the domain of
\* every assigned variable equal to the singleton of its value.
C14_Singleton ==
    /\ pc = "added" => Collapsed(child)
    /\ \A x \in DOMAIN stack : Collapsed(stack[x].csp)

\* C14 as amended: the root state, every state add_assignment has returned
\* True for and every state the search recursed into have the domain of
\* every assigned variable equal to the singleton of its value; in a state
\* add_assignment has returned False for, the assigned variables are
\* variables and the domain of each is that singleton or empty.
C14_SingletonIfConsistent ==
    /\ \A x \in DOMAIN stack : Collapsed(stack[x].csp)
    /\ (pc = "added" /\ is_consistent) => Collapsed(child)
    /\ (pc = "added" /\ ~is_consistent) =>
          /\ DOMAIN asgHeap[child.assignments] \subseteq variables
          /\ \A v \in DOMAIN asgHeap[child.assignments] :
                domHeap[child.domains][v] \subseteq {asgHeap[child.assignments][v]}

\* add_assignment has returned True for a state with two assignments, one
\* of them on a variable that had two values left before it.
C14_Witness ==
    /\ pc = "added"
    /\ is_consistent
    /\ Cardinality(DOMAIN asgHeap[child.assignments]) = 2
    /\ Cardinality(domHeap[Top.csp.domains][Top.next_var]) = 2

\* add_assignment has returned False with the domain of the variable it
\* assigned emptied by the propagation.
C14_WitnessEmptied ==
    /\ pc = "added"
    /\ ~is_consistent
    /\ domHeap[child.domains][Top.next_var] = {}

\* ---- claims about forced_order and forced_attempts ----
\* The sequence s is what is left of sequence f after some of its first
\* elements were taken.
IsSuffix(s, f) ==
    /\ Len(s) <= Len(f)
    /\ \A x \in DOMAIN s : s[x] = f[Len(f) - Len(s) + x]

\* The orders the claim allows a call to try the values of its variable
\* in: an LCV order of the domain, with the forced attempt of the variable,
\* if it is in the domain, moved to the front.
AllowedOrders(frame) ==
    LET domains == domHeap[frame.csp.domains]
        v == frame.next_var
        lcv == get_value_order(domains, constraints, v)
    IN IF forced_attempts.given /\ v \in DOMAIN forced_attempts.map
                                /\ forced_attempts.map[v] \in domains[v]
       THEN {<<forced_attempts.map[v]>> \o
                SelectSeq(o, LAMBDA t : t # forced_attempts.map[v]) : o \in lcv}
       ELSE lcv

\* The search has ended as one without forced_order and forced_attempts
\* ends: with a solution if there is one, with None if there is none.
EndsAsUnforced ==
    /\ pc # "raised"
    /\ pc = "done" => (retval.is_none <=> Solutions = {})
    /\ (pc \in {"ret", "done"} /\ ~retval.is_none) => retval.map \in Solutions

\* C15: with any forced_order that is a list of variables and any
\* forced_attempts, the search ends as one without them ends, a solution it
\* returns satisfies every constraint, and the values every call has left
\* to try are the rest of an LCV order of the domain with the forced
\* attempt, if it is in the domain, moved to the front.
C15_ForcingHarmless ==
    (forced_order.given => Range(forced_order.list) \subseteq variables) =>
        /\ EndsAsUnforced
        /\ \A x \in DOMAIN stack :
              stack[x].next_var \in variables =>
                  \E f \in AllowedOrders(stack[x]) : IsSuffix(stack[x].value_order, f)

\* What the code does keep of C15: the same, for a forced_order that names
\* no variable twice.
C15_ForcingHarmlessDistinct == WellFormedOrder => C15_ForcingHarmless

\* ---- claims about the control flow of backtrack ----
\* A call is returning a solution to its caller.
ReturningSolution == pc = "ret" /\ ~retval.is_none

\* C16: once a call returns a solution, every step of the search is the
\* return of the next enclosing call with that same solution, down to the
\* root call, which ends the search with it: no state is cloned, no
\* assignment is made and no value is tried after it.
C16_FirstSolutionEnds ==
    [][ReturningSolution =>
          /\ retval' = retval
          /\ pc' = (IF Len(stack) = 1 THEN "done" ELSE "ret")
          /\ Len(stack') = Len(stack) - 1
          /\ child' = NoCSP /\ child = NoCSP
          /\ to_check' = to_check
          /\ \A id \in DOMAIN asgHeap : asgHeap'[id] \in {asgHeap[id], <<>>}
          /\ \A id \in DOMAIN domHeap : domHeap'[id] \in {domHeap[id], <<>>}]_vars

\* A call at depth two or more returns a solution while an enclosing call
\* has a value left that it has not tried.
C16_Witness ==
    /\ ReturningSolution
    /\ Len(stack) >= 3
    /\ \E x \in 1..(Len(stack) - 1) : Len(stack[x].value_order) >= 2

\* The assignments of frame x are those of its caller and one more.
OneMoreAssignment(x) ==
    LET mine == asgHeap[stack[x].csp.assignments]
        parent == asgHeap[stack[x - 1].csp.assignments]
    IN /\ Cardinality(DOMAIN mine) = Cardinality(DOMAIN parent) + 1
       /\ \A v \in DOMAIN parent : v \in DOMAIN mine /\ mine[v] = parent[v]

\* A recursive call is made only on the child add_assignment has just
\* returned True for.
RecursesOnConsistent ==
    Len(stack') > Len(stack) =>
        /\ pc = "added" /\ is_consistent
        /\ stack' = stack \o <<Frame(child, 0, <<>>)>>

\* A call that has no value left to try returns None, and the caller of a
\* call that returned None goes on with the value after the one it tried.
ExhaustedReturnsNone ==
    /\ (pc = "loop" /\ Top.value_order = <<>>) => (pc' = "ret" /\ retval' = None)
    /\ (pc = "ret" /\ retval.is_none /\ Len(stack) > 1) =>
          /\ pc' = "loop"
          /\ Len(stack') = Len(stack) - 1
          /\ stack'[Len(stack')] =
                Frame(stack[Len(stack) - 1].csp, stack[Len(stack) - 1].next_var,
                      Tail(stack[Len(stack) - 1].value_order))

\* C17 as claimed: backtrack recurses only into a child add_assignment
\* returned True for, every state a recursive call was made on has no
\* empty domain and one more assignment than its caller's state, and a
\* call out of values returns None to a caller that goes on with its next
\* value.
C17_Pruned ==
    /\ [](\A x \in 2..Len(stack) :
            /\ \A v \in variables : domHeap[stack[x].csp.domains][v] # {}
            /\ OneMoreAssignment(x))
    /\ [][RecursesOnConsistent /\ ExhaustedReturnsNone]_vars

\* C17 as amended: the same, a state a recursive call was made on having
\* no empty domain but those declared empty.
C17_PrunedButDeclaredEmpty ==
    /\ [](\A x \in 2..Len(stack) :
            /\ \A v \in variables :
                  domHeap[stack[x].csp.domains][v] = {} => declared[v] = {}
            /\ OneMoreAssignment(x))
    /\ [][RecursesOnConsistent /\ ExhaustedReturnsNone]_vars

\* A recursive call, made on a state without an empty domain, has run out
\* of values after an inconsistent child of its own was dropped and
\* returns None to a caller that has a value left.
C17_Witness ==
    /\ pc = "ret"
    /\ retval.is_none
    /\ Len(stack) >= 2
    /\ ~is_consistent
    /\ \A v \in variables : domHeap[Top.csp.domains][v] # {}
    /\ Len(stack[Len(stack) - 1].value_order) >= 2

\* A recursive call has been made on a state with a domain declared empty.
C17_WitnessDeclaredEmpty ==
    /\ Len(stack) >= 2
    /\ \E v \in variables : domHeap[Top.csp.domains][v] = {}

\* C18: the state the search was given keeps its declared domains and no
\* assignment; and a step of the search leaves the CSP object, the domains
\* and the assignments of every call that is still active what they were,
\* and leaves the variables and the constraints what they were.
C18_NodeUnchanged ==
    /\ [](\A x \in DOMAIN stack : x = 1 =>
            /\ domHeap[stack[x].csp.domains] = declared
            /\ asgHeap[stack[x].csp.assignments] = <<>>)
    /\ [][/\ \A x \in DOMAIN stack \cap DOMAIN stack' :
               /\ stack'[x].csp = stack[x].csp
               /\ domHeap'[stack[x].csp.domains] = domHeap[stack[x].csp.domains]
               /\ asgHeap'[stack[x].csp.assignments] = asgHeap[stack[x].csp.assignments]
          /\ constraints' = constraints
          /\ variables' = variables]_vars

\* A recursive call has tried a child, dropped after propagation failed,
\* and goes on with its loop; no domain of its state is empty.
C18_Witness ==
    /\ pc = "loop"
    /\ Len(stack) >= 2
    /\ ~is_consistent
    /\ Len(Top.value_order) < Cardinality(domHeap[Top.csp.domains][Top.next_var])
    /\ \A v \in variables : domHeap[Top.csp.domains][v] # {}

\* ---- claims about the two heuristics ----
\* The unassigned variables of the state the client works on.
Unassigned == variables \ DOMAIN CurAssignments

\* The degree of v as the claim counts it: the constraint keys with v as
\* an endpoint whose other endpoint is unassigned.
DeclaredDegree(v) ==
    Cardinality({x \in DOMAIN constraints.keys :
        \/ constraints.keys[x][1] = v /\ constraints.keys[x][2] \in Unassigned
        \/ constraints.keys[x][2] = v /\ constraints.keys[x][1] \in Unassigned})

\* C19: the variable get_next_variable has returned is unassigned, no
\* unassigned variable has a smaller domain, and no unassigned variable
\* with a domain of that size has more constraints to unassigned variables.
C19_NextVariable ==
    (client.op = "get_next_variable" /\ pc # "raised") =>
        LET v == client.result[1]
        IN /\ v \in Unassigned
           /\ \A w \in Unassigned : Cardinality(Cur[v]) <= Cardinality(Cur[w])
           /\ \A w \in Unassigned :
                 Cardinality(Cur[w]) = Cardinality(Cur[v]) =>
                     DeclaredDegree(v) >= DeclaredDegree(w)

\* What the code does keep of C19: the same on instances without a key
\* (i, i).
NoSelfKey == \A k \in Range(constraints.keys) : k[1] # k[2]
C19_NextVariableNoSelfKey == NoSelfKey => C19_NextVariable

\* The support count of value t of variable v as the claim counts it: the
\* allowed pairs, over every constraint key with v as an endpoint, that
\* have t on the side of v and a value of the current domain of the other
\* endpoint on the other side.
SupportCount(v, t) ==
    Cardinality({xp \in StoredPairs(constraints) :
        LET k == constraints.keys[xp[1]]
            p == xp[2]
        IN \/ k[1] = v /\ p[1] = t /\ p[2] \in Cur[k[2]]
           \/ k[2] = v /\ p[2] = t /\ p[1] \in Cur[k[1]]})

\* C20: the sequence get_value_order(v) has returned holds every value of
\* the current domain of v exactly once, no value after one with a smaller
\* support count, and the call has left the domains and the assignments
\* what they were.
C20_ValueOrder ==
    (client.op = "get_value_order") =>
        LET v == client.args[1]
            order == client.result
        IN /\ Len(order) = Cardinality(Cur[v])
           /\ Range(order) = Cur[v]
           /\ \A a, b \in DOMAIN order :
                 a < b => SupportCount(v, order[a]) >= SupportCount(v, order[b])
           /\ Cur = client.domains
           /\ CurAssignments = client.assignments

\* What C20 is on instances without a key (i, i).
C20_ValueOrderNoSelfKey == NoSelfKey => C20_ValueOrder

====
